---------------------------- MODULE Spec2Model ----------------------------
(***************************************************************************)
(* Model of txmsg-r: a scanner that walks a range of Ethereum blocks and   *)
(* looks for human-readable text in the data field of every transaction.   *)
(*                                                                         *)
(* The repository holds two builds of the program:                         *)
(*   "main"  src/main.go          descending scan, signature filter,       *)
(*                                decodeUTF8, isValidMessage, one header   *)
(*                                per block;                               *)
(*   "part"  src/unnamed/part_000 ascending scan, filterPrintable,         *)
(*                                isMeaningful, printResults per           *)
(*                                transaction.                             *)
(* The variable variant says which build a behaviour is a run of.          *)
(*                                                                         *)
(* Go strings and byte slices are sequences of bytes (0..255); runes are   *)
(* integers (code points).                                                 *)
(***************************************************************************)
EXTENDS Integers, Sequences, FiniteSets, TLC

VARIABLES
    variant,       \* "main" or "part": the build that runs
    pc,            \* position of the program / of the function under study
    \* ---- scan (main, processBlock, printResults)
    endBlock,      \* header.Number.Int64()
    blockNum,      \* the loop variable of main
    curTxs,        \* block.Transactions() of the block being processed
    txIdx,         \* index of the next transaction of curTxs
    blockOutputs,  \* processBlock's accumulator (main.go): indices of curTxs
    emitted,       \* what was printed for the current block, in order
    fetched,       \* history: the block numbers given to BlockByNumber
    logged,        \* history: the block numbers of the "fetch error" log lines
    \* ---- Byte Decoder
    data,          \* the input bytes (tx.Data())
    once,          \* decode(data)
    twice,         \* decode([]byte(once))
    \* ---- Candidate Extractor
    text,          \* the decoded text given to the pattern
    spans,         \* the matches, as [lo, hi) byte offsets into text
    \* ---- Message Classifier
    cand,          \* the candidate message
    verdict,       \* the classifier's answer for cand
    prevVerdict,   \* the answer for cand before a word was appended
    appended,      \* the word appended to cand, <<>> if none
    \* ---- pipeline (analyzeTransaction)
    candidates,    \* pattern.FindAllString(decoded, -1)
    accepted       \* the messages the classifier accepted

scanVars == <<endBlock, blockNum, curTxs, txIdx, blockOutputs, emitted, fetched, logged>>
decVars  == <<data, once, twice>>
extVars  == <<text, spans>>
clsVars  == <<cand, verdict, prevVerdict, appended>>
pipeVars == <<candidates, accepted>>
vars == <<variant, pc, scanVars, decVars, extVars, clsVars, pipeVars>>

Variants == {"main", "part"}

(***************************************************************************)
(* Configuration constants.                                                *)
(***************************************************************************)
\* scanDepth is 100 in both builds; the model scans a shorter range.
scanDepth == 2
minMsgLength == 4
minWordLength == 3
minWords == 2
\* letterRatio = 0.6, kept as the fraction letterRatioNum / letterRatioDen
letterRatioNum == 6
letterRatioDen == 10
asciiPrintable == 32
asciiMax == 126

(***************************************************************************)
(* unicode/utf8.                                                           *)
(***************************************************************************)
RuneError == 65533

\* utf8.first[b] & 7: the length of the sequence a lead byte announces
\* (0 for a byte that cannot start a sequence).
FirstSize(b) ==
    IF b < 128 THEN 1
    ELSE IF b < 194 THEN 0
    ELSE IF b < 224 THEN 2
    ELSE IF b < 240 THEN 3
    ELSE IF b < 245 THEN 4
    ELSE 0

\* utf8.acceptRanges: the range allowed for the second byte.
AcceptLo(b) == IF b = 224 THEN 160 ELSE IF b = 240 THEN 144 ELSE 128
AcceptHi(b) == IF b = 237 THEN 159 ELSE IF b = 244 THEN 143 ELSE 191

IsCont(b) == b >= 128 /\ b <= 191

\* utf8.DecodeRune(p[i:]) for a 1-based index i <= Len(p): the rune and its
\* width; an invalid or short sequence is (RuneError, 1).
DecodeRuneAt(p, i) ==
    LET n  == Len(p) - i + 1
        p0 == p[i]
        sz == FirstSize(p0)
        bad == [r |-> RuneError, size |-> 1]
    IN  IF sz = 1 THEN [r |-> p0, size |-> 1]
        ELSE IF sz = 0 \/ n < sz THEN bad
        ELSE IF p[i+1] < AcceptLo(p0) \/ p[i+1] > AcceptHi(p0) THEN bad
        ELSE IF sz = 2 THEN [r |-> (p0 % 32) * 64 + (p[i+1] % 64), size |-> 2]
        ELSE IF ~IsCont(p[i+2]) THEN bad
        ELSE IF sz = 3
             THEN [r |-> (p0 % 16) * 4096 + (p[i+1] % 64) * 64 + (p[i+2] % 64),
                   size |-> 3]
        ELSE IF ~IsCont(p[i+3]) THEN bad
        ELSE [r |-> (p0 % 8) * 262144 + (p[i+1] % 64) * 4096
                    + (p[i+2] % 64) * 64 + (p[i+3] % 64),
              size |-> 4]

\* utf8.EncodeRune / strings.Builder.WriteRune: the bytes of a rune.
EncodeRune(r) ==
    IF r < 0 \/ r > 1114111 \/ (r >= 55296 /\ r <= 57343)
    THEN <<239, 191, 189>>
    ELSE IF r < 128 THEN <<r>>
    ELSE IF r < 2048 THEN <<192 + (r \div 64), 128 + (r % 64)>>
    ELSE IF r < 65536
         THEN <<224 + (r \div 4096), 128 + ((r \div 64) % 64), 128 + (r % 64)>>
    ELSE <<240 + (r \div 262144), 128 + ((r \div 4096) % 64),
           128 + ((r \div 64) % 64), 128 + (r % 64)>>

\* "for _, r := range s": the runes of a string, an invalid byte read as
\* RuneError of width 1.
RECURSIVE RunesFrom(_, _)
RunesFrom(s, i) ==
    IF i > Len(s) THEN <<>>
    ELSE LET d == DecodeRuneAt(s, i)
         IN  <<d.r>> \o RunesFrom(s, i + d.size)

Runes(s) == RunesFrom(s, 1)

(***************************************************************************)
(* unicode: the tables, over the code points the model's alphabets can     *)
(* produce: Latin-1 (U+0000..U+00FF), the private-use row U+F800..U+F8FF   *)
(* and the halfwidth/fullwidth row U+FF00..U+FFFF.                         *)
(***************************************************************************)
InRange(r, lo, hi) == r >= lo /\ r <= hi

\* unicode.IsLetter: category L
IsLetter(r) ==
    \/ InRange(r, 65, 90) \/ InRange(r, 97, 122)
    \/ r \in {170, 181, 186}
    \/ InRange(r, 192, 214) \/ InRange(r, 216, 246) \/ InRange(r, 248, 255)
    \/ InRange(r, 65313, 65338) \/ InRange(r, 65345, 65370)
    \/ InRange(r, 65382, 65470) \/ InRange(r, 65474, 65479)
    \/ InRange(r, 65482, 65487) \/ InRange(r, 65490, 65495)
    \/ InRange(r, 65498, 65500)

\* unicode.IsNumber, the regexp class \p{N}: category N
IsNumber(r) ==
    \/ InRange(r, 48, 57)
    \/ r \in {178, 179, 185}
    \/ InRange(r, 188, 190)
    \/ InRange(r, 65296, 65305)

\* unicode.IsSpace: White_Space
IsSpace(r) == InRange(r, 9, 13) \/ r \in {32, 133, 160}

\* unicode.IsPrint: categories L, M, N, P, S and the ASCII space
IsPrint(r) ==
    \/ InRange(r, 32, 126)
    \/ InRange(r, 161, 172) \/ InRange(r, 174, 255)
    \/ InRange(r, 65281, 65470) \/ InRange(r, 65474, 65479)
    \/ InRange(r, 65482, 65487) \/ InRange(r, 65490, 65495)
    \/ InRange(r, 65498, 65500) \/ InRange(r, 65504, 65510)
    \/ InRange(r, 65512, 65518) \/ InRange(r, 65532, 65533)

\* unicode.ToLower
ToLower(r) ==
    IF InRange(r, 65, 90) THEN r + 32
    ELSE IF InRange(r, 192, 214) \/ InRange(r, 216, 222) THEN r + 32
    ELSE IF InRange(r, 65313, 65338) THEN r + 32
    ELSE r

(***************************************************************************)
(* strings.Fields and strings.Join(_, " ").                                *)
(***************************************************************************)
\* strings.Fields(s): the maximal runs of non-space runes. cur is the field
\* being read (<<>> when between fields).
RECURSIVE FieldsFrom(_, _, _)
FieldsFrom(s, i, cur) ==
    IF i > Len(s) THEN (IF cur = <<>> THEN <<>> ELSE <<cur>>)
    ELSE LET d == DecodeRuneAt(s, i)
         IN  IF IsSpace(d.r)
             THEN (IF cur = <<>> THEN <<>> ELSE <<cur>>) \o FieldsFrom(s, i + d.size, <<>>)
             ELSE FieldsFrom(s, i + d.size, cur \o SubSeq(s, i, i + d.size - 1))

Fields(s) == FieldsFrom(s, 1, <<>>)

RECURSIVE JoinSpace(_)
JoinSpace(ws) ==
    IF ws = <<>> THEN <<>>
    ELSE IF Len(ws) = 1 THEN ws[1]
    ELSE ws[1] \o <<32>> \o JoinSpace(Tail(ws))

(***************************************************************************)
(* Byte Decoder.                                                           *)
(***************************************************************************)
\* The loop of decodeUTF8: the bytes written to the strings.Builder.
RECURSIVE decodeLoop(_, _)
decodeLoop(d, i) ==
    IF i > Len(d) THEN <<>>
    ELSE LET x == DecodeRuneAt(d, i)
         IN  IF x.r = RuneError THEN decodeLoop(d, i + 1)
             ELSE IF IsPrint(x.r) THEN EncodeRune(x.r) \o decodeLoop(d, i + x.size)
             ELSE decodeLoop(d, i + x.size)

decodeUTF8(d) == JoinSpace(Fields(decodeLoop(d, 1)))

\* The loop of filterPrintable.
filterLoop(d) ==
    [i \in 1..Len(d) |-> IF d[i] >= asciiPrintable /\ d[i] <= asciiMax THEN d[i] ELSE 32]

\* A build that normalises the whitespace of the raw bytes before it
\* substitutes the unprintable ones.
filterPrintableEarlyJoin(d) == filterLoop(JoinSpace(Fields(d)))

filterPrintable(d) == JoinSpace(Fields(filterLoop(d)))

\* The decoder of the build.
Decode(v, d) == IF v = "main" THEN decodeUTF8(d) ELSE filterPrintable(d)

(***************************************************************************)
(* Candidate Extractor: the pattern and regexp.FindAllString.              *)
(***************************************************************************)
\* The regexp class \s (ASCII only in Go's syntax): [\t\n\f\r ]
PerlSpace(r) == r \in {9, 10, 12, 13, 32}

\* The character class of msgPattern: [\p{L}\p{N}\s] in main.go,
\* [a-zA-Z0-9 ] in part_000.
InClass(v, r) ==
    IF v = "main"
    THEN IsLetter(r) \/ IsNumber(r) \/ PerlSpace(r)
    ELSE InRange(r, 97, 122) \/ InRange(r, 65, 90) \/ InRange(r, 48, 57) \/ r = 32

\* The greedy repetition read from offset i: the offset after the last rune of
\* the class and the number of runes read (n counts them).
RECURSIVE Greedy(_, _, _, _)
Greedy(v, s, i, n) ==
    IF i > Len(s) THEN [end |-> i, count |-> n]
    ELSE LET d == DecodeRuneAt(s, i)
         IN  IF InClass(v, d.r) THEN Greedy(v, s, i + d.size, n + 1)
             ELSE [end |-> i, count |-> n]

\* The offset after the first k runes of s from offset i.
RECURSIVE SkipRunes(_, _, _)
SkipRunes(s, i, k) ==
    IF k = 0 \/ i > Len(s) THEN i
    ELSE SkipRunes(s, i + DecodeRuneAt(s, i).size, k - 1)

\* A pattern whose repetition stops at the minimum: {n} or a lazy {n,}?
MatchAtShortest(v, s, i) ==
    LET g == Greedy(v, s, i, 0)
    IN  IF g.count >= minMsgLength THEN SkipRunes(s, i, minMsgLength) ELSE 0

\* The match of class{minMsgLength,} that starts at offset i: the offset after
\* it, 0 when the pattern does not match there.
MatchAt(v, s, i) ==
    LET g == Greedy(v, s, i, 0)
    IN  IF g.count >= minMsgLength THEN g.end ELSE 0

\* regexp.FindAllStringIndex(s, -1) from offset i: successive leftmost
\* matches, each search starting where the last match ended. A span is
\* [lo, hi): 1-based offset of its first byte, offset after its last.
RECURSIVE FindAllFrom(_, _, _)
FindAllFrom(v, s, i) ==
    IF i > Len(s) THEN <<>>
    ELSE LET e == MatchAt(v, s, i)
         IN  IF e # 0
             THEN <<[lo |-> i, hi |-> e]>> \o FindAllFrom(v, s, e)
             ELSE FindAllFrom(v, s, i + DecodeRuneAt(s, i).size)

FindAllStringIndex(v, s) == FindAllFrom(v, s, 1)

\* regexp.FindAllString(s, -1): the matched substrings.
FindAllString(v, s) ==
    LET ix == FindAllStringIndex(v, s)
    IN  [k \in 1..Len(ix) |-> SubSeq(s, ix[k].lo, ix[k].hi - 1)]

(***************************************************************************)
(* Message Classifier.                                                     *)
(***************************************************************************)
hasLetters(s) == \E k \in 1..Len(Runes(s)) : IsLetter(Runes(s)[k])

hasVowel(s) ==
    \E k \in 1..Len(Runes(s)) : ToLower(Runes(s)[k]) \in {97, 101, 105, 111, 117}

\* The test of hasValidWords on one word; len(word) is a length in bytes.
wordCounts(word) == Len(word) >= minWordLength /\ hasLetters(word) /\ hasVowel(word)

\* A build that wants exactly minWords valid words.
hasValidWordsExact(words) ==
    Cardinality({k \in 1..Len(words) : wordCounts(words[k])}) = minWords

\* A build that wants more than minWords valid words.
hasValidWordsStrict(words) ==
    Cardinality({k \in 1..Len(words) : wordCounts(words[k])}) > minWords

\* validWords is the number of words that pass the test.
hasValidWords(words) ==
    Cardinality({k \in 1..Len(words) : wordCounts(words[k])}) >= minWords

NotSpace(r) == ~IsSpace(r)

\* float64(letterCount)/float64(totalChars) >= letterRatio. 0/0 is NaN, and
\* NaN >= x is false.
ratioAtLeast(letterCount, totalChars) ==
    /\ totalChars # 0
    /\ letterCount * letterRatioDen >= letterRatioNum * totalChars

isValidMessage(s) ==
    LET words == Fields(s)
        rs == Runes(s)
        letterCount == Cardinality({k \in 1..Len(rs) : IsLetter(rs[k])})
        totalChars == Cardinality({k \in 1..Len(rs) : NotSpace(rs[k])})
    IN  IF Len(words) < minWords THEN FALSE
        ELSE ratioAtLeast(letterCount, totalChars) /\ hasValidWords(words)

\* The test of isMeaningful on one word.
wordCountsLight(word) == Len(word) >= minWordLength /\ hasLetters(word)

isMeaningful(s) ==
    LET words == Fields(s)
    IN  IF Len(words) < minWords THEN FALSE
        ELSE Cardinality({k \in 1..Len(words) : wordCountsLight(words[k])}) >= minWords

\* The classifier of the build.
Classify(v, s) == IF v = "main" THEN isValidMessage(s) ELSE isMeaningful(s)

(***************************************************************************)
(* Signature Filter.                                                       *)
(***************************************************************************)
functionSignatures ==
    [sig \in {"a9059cbb", "23b872dd", "095ea7b3", "42842e0e", "b88d4fde",
              "a22cb465", "6352211e", "70a08231", "06fdde03", "95d89b41"} |->
        CASE sig = "a9059cbb" -> "ERC20 transfer"
          [] sig = "23b872dd" -> "ERC20 transferFrom"
          [] sig = "095ea7b3" -> "ERC20 approve"
          [] sig = "42842e0e" -> "ERC721 safeTransferFrom"
          [] sig = "b88d4fde" -> "ERC721 safeTransferFrom with data"
          [] sig = "a22cb465" -> "setApprovalForAll"
          [] sig = "6352211e" -> "ownerOf (ERC721)"
          [] sig = "70a08231" -> "balanceOf"
          [] sig = "06fdde03" -> "name()"
          [] sig = "95d89b41" -> "symbol()"]

hextable == <<"0", "1", "2", "3", "4", "5", "6", "7", "8", "9", "a", "b", "c", "d", "e", "f">>

\* hex.EncodeToString
RECURSIVE EncodeToString(_)
EncodeToString(bs) ==
    IF bs = <<>> THEN ""
    ELSE hextable[(bs[1] \div 16) + 1] \o hextable[(bs[1] % 16) + 1]
         \o EncodeToString(Tail(bs))

isContractCall(d) ==
    IF Len(d) < 4 THEN FALSE
    ELSE EncodeToString(SubSeq(d, 1, 4)) \in DOMAIN functionSignatures

(***************************************************************************)
(* analyzeTransaction: the candidates it extracts from a payload and the   *)
(* messages that pass the classifier (main.go returns them, part_000 hands *)
(* the candidates to printResults, which prints the meaningful ones).      *)
(***************************************************************************)
\* The payloads analyzeTransaction returns on before decoding.
skipped(v, d) ==
    IF v = "main" THEN Len(d) = 0 \/ isContractCall(d) ELSE Len(d) = 0

CandidatesOf(v, d) ==
    IF skipped(v, d) THEN <<>> ELSE FindAllString(v, Decode(v, d))

RECURSIVE SelectAccepted(_, _)
SelectAccepted(v, ms) ==
    IF ms = <<>> THEN <<>>
    ELSE (IF Classify(v, Head(ms)) THEN <<Head(ms)>> ELSE <<>>)
         \o SelectAccepted(v, Tail(ms))

AcceptedOf(v, d) == SelectAccepted(v, CandidatesOf(v, d))

(***************************************************************************)
(* Inputs and idle values shared by the specifications below.              *)
(***************************************************************************)
\* The sequences over S of length at most n.
BSeq(S, n) == UNION {[1..k -> S] : k \in 0..n}

RECURSIVE Concat(_)
Concat(ss) == IF ss = <<>> THEN <<>> ELSE Head(ss) \o Concat(Tail(ss))

ScanIdle ==
    /\ endBlock = 0 /\ blockNum = 0 /\ curTxs = <<>> /\ txIdx = 0
    /\ blockOutputs = <<>> /\ emitted = <<>> /\ fetched = <<>> /\ logged = <<>>
DecIdle  == data = <<>> /\ once = <<>> /\ twice = <<>>
ExtIdle  == text = <<>> /\ spans = <<>>
ClsIdle  == cand = <<>> /\ verdict = FALSE /\ prevVerdict = FALSE /\ appended = <<>>
PipeIdle == candidates = <<>> /\ accepted = <<>>

(***************************************************************************)
(* SpecDecode: the Byte Decoder applied to a payload and to its own        *)
(* output.                                                                 *)
(***************************************************************************)
MaxBytes == 5

\* NUL, space, 'a', and the bytes of U+00A0 (C2 A0) and U+FFFD (EF BF BD);
\* alone or in another order the last five are invalid UTF-8 or other runes.
DecodeAlphabet == {0, 32, 97, 194, 160, 239, 191, 189}

InitDecode ==
    /\ variant \in Variants
    /\ pc = "decode"
    /\ data \in BSeq(DecodeAlphabet, MaxBytes)
    /\ once = <<>> /\ twice = <<>>
    /\ ScanIdle /\ ExtIdle /\ ClsIdle /\ PipeIdle

DecodeOnce ==
    /\ pc = "decode"
    /\ once' = Decode(variant, data)
    /\ pc' = "redecode"
    /\ UNCHANGED <<variant, scanVars, data, twice, extVars, clsVars, pipeVars>>

DecodeAgain ==
    /\ pc = "redecode"
    /\ twice' = Decode(variant, once)
    /\ pc' = "decoded"
    /\ UNCHANGED <<variant, scanVars, data, once, extVars, clsVars, pipeVars>>

NextDecode == DecodeOnce \/ DecodeAgain

SpecDecode == InitDecode /\ [][NextDecode]_vars

\* C5: decoding the decoded text again yields the same text, under both
\* strategies (decodeUTF8 in the "main" build, filterPrintable in "part").
C5_DecodeIdempotent == pc = "decoded" => twice = once

\* 'a', the encoded U+FFFD, 'a', decoded twice by decodeUTF8: the rune read
\* is RuneError, and each of its three bytes is skipped in turn.
C5_Witness ==
    /\ pc = "decoded" /\ variant = "main"
    /\ data = <<97, 239, 191, 189, 97>>
    /\ once = <<97, 97>> /\ twice = <<97, 97>>

(***************************************************************************)
(* SpecExtract: the pattern applied to a decoded text.                     *)
(***************************************************************************)
MaxSegs == 3

\* A decoded text is built from runs of one character; the run lengths
\* straddle minMsgLength.
RunLengths == {1, 3, 4, 6}

\* 'a', '7', '!' and, in the "main" build (whose decoder keeps non-ASCII
\* letters), U+00E9.
ExtractChars(v) ==
    {<<97>>, <<55>>, <<33>>} \cup (IF v = "main" THEN {<<195, 169>>} ELSE {})

RECURSIVE Repeat(_, _)
Repeat(c, n) == IF n = 0 THEN <<>> ELSE c \o Repeat(c, n - 1)

Segments(v) ==
    {Repeat(c, n) : c \in ExtractChars(v), n \in RunLengths} \cup {<<32>>}

\* The decoders end with strings.Join(strings.Fields(_), " "): a decoded
\* text has single spaces only and none at its ends.
DecodedTexts(v) ==
    {t \in {Concat(ss) : ss \in BSeq(Segments(v), MaxSegs)} : JoinSpace(Fields(t)) = t}

InitExtract ==
    /\ variant \in Variants
    /\ pc = "extract"
    /\ text \in DecodedTexts(variant)
    /\ spans = <<>>
    /\ ScanIdle /\ DecIdle /\ ClsIdle /\ PipeIdle

Extract ==
    /\ pc = "extract"
    /\ spans' = FindAllStringIndex(variant, text)
    /\ pc' = "extracted"
    /\ UNCHANGED <<variant, scanVars, decVars, text, clsVars, pipeVars>>

NextExtract == Extract

SpecExtract == InitExtract /\ [][NextExtract]_vars

\* The offsets of text at which a rune starts.
RECURSIVE RuneStarts(_, _)
RuneStarts(s, i) ==
    IF i > Len(s) THEN {} ELSE {i} \cup RuneStarts(s, i + DecodeRuneAt(s, i).size)

\* A letter, a digit or whitespace.
TextChar(r) == IsLetter(r) \/ IsNumber(r) \/ IsSpace(r)

SpanRunes(sp) == Runes(SubSeq(text, sp.lo, sp.hi - 1))

\* The rune that ends right before offset i, as a set (empty at the start).
RuneBefore(i) ==
    {DecodeRuneAt(text, j).r : j \in {j \in RuneStarts(text, 1) : j + DecodeRuneAt(text, j).size = i}}

\* C6: the candidates are spans of the text that do not overlap, hold only
\* letters, digits and whitespace, are at least minMsgLength characters long
\* and are maximal: the character before and the character after a candidate
\* is none of these.
C6_CandidatesMaximalDisjoint ==
    pc = "extracted" =>
        /\ \A k \in 1..Len(spans) :
            LET sp == spans[k]
            IN  /\ 1 <= sp.lo /\ sp.lo < sp.hi /\ sp.hi <= Len(text) + 1
                /\ \A n \in 1..Len(SpanRunes(sp)) : TextChar(SpanRunes(sp)[n])
                /\ Len(SpanRunes(sp)) >= minMsgLength
                /\ \A r \in RuneBefore(sp.lo) : ~TextChar(r)
                /\ sp.hi <= Len(text) => ~TextChar(DecodeRuneAt(text, sp.hi).r)
        /\ \A j, k \in 1..Len(spans) : j < k => spans[j].hi <= spans[k].lo

\* "aaaaaa7777!": the run of 10 letters and digits is reported once, as one
\* candidate that ends before the '!'.
C6_Witness ==
    /\ pc = "extracted"
    /\ variant = "main"
    /\ text = Repeat(<<97>>, 6) \o Repeat(<<55>>, 4) \o <<33>>
    /\ spans = <<[lo |-> 1, hi |-> 11]>>

(***************************************************************************)
(* SpecClassify: the classifier applied to a candidate, and to the         *)
(* candidate with one more word appended.                                  *)
(***************************************************************************)
MaxWords == 3

\* "abe", "a11", "bcd", "xk", "99" and, in the "main" build (whose pattern
\* has \p{L}), the two characters U+00E9 'a', three bytes long.
Words(v) ==
    {<<97, 98, 101>>, <<97, 49, 49>>, <<98, 99, 100>>, <<120, 107>>, <<57, 57>>}
    \cup (IF v = "main" THEN {<<195, 169, 97>>} ELSE {})

\* A candidate message is a match of the pattern: words of the build's
\* alphabet, at least minMsgLength characters in all.
Candidates(v) ==
    {c \in {JoinSpace(ws) : ws \in BSeq(Words(v), MaxWords)} :
        Len(Runes(c)) >= minMsgLength}

InitClassify ==
    /\ variant \in Variants
    /\ pc = "classify"
    /\ cand \in Candidates(variant)
    /\ verdict = FALSE /\ prevVerdict = FALSE /\ appended = <<>>
    /\ ScanIdle /\ DecIdle /\ ExtIdle /\ PipeIdle

ClassifyCand ==
    /\ pc = "classify"
    /\ verdict' = Classify(variant, cand)
    /\ pc' = "judged"
    /\ UNCHANGED <<variant, scanVars, decVars, extVars, cand, prevVerdict, appended, pipeVars>>

\* The candidate with the word w appended as one more whitespace-separated
\* word, to be classified again.
AppendWord(w) ==
    /\ pc = "judged"
    /\ appended = <<>>
    /\ cand' = cand \o <<32>> \o w
    /\ prevVerdict' = verdict
    /\ appended' = w
    /\ pc' = "classify"
    /\ UNCHANGED <<variant, scanVars, decVars, extVars, verdict, pipeVars>>

NextClassify == ClassifyCand \/ \E w \in Words(variant) : AppendWord(w)

SpecClassify == InitClassify /\ [][NextClassify]_vars

\* A valid word, as the specification words it: at least minWordLength
\* characters, a letter and, in the stronger variant, a vowel.
ValidWord(v, w) ==
    /\ Len(Runes(w)) >= minWordLength
    /\ \E k \in 1..Len(Runes(w)) : IsLetter(Runes(w)[k])
    /\ v = "main" => \E k \in 1..Len(Runes(w)) : Runes(w)[k] \in {97, 101, 105, 111, 117, 65, 69, 73, 79, 85}

\* The same with the length taken as len(word), the number of bytes.
CountedWord(v, w) ==
    /\ Len(w) >= minWordLength
    /\ \E k \in 1..Len(Runes(w)) : IsLetter(Runes(w)[k])
    /\ v = "main" => \E k \in 1..Len(Runes(w)) : Runes(w)[k] \in {97, 101, 105, 111, 117, 65, 69, 73, 79, 85}

NumValid(v, c) == Cardinality({k \in 1..Len(Fields(c)) : ValidWord(v, Fields(c)[k])})
NumCounted(v, c) == Cardinality({k \in 1..Len(Fields(c)) : CountedWord(v, Fields(c)[k])})

NumLetters(c) == Cardinality({k \in 1..Len(Runes(c)) : IsLetter(Runes(c)[k])})
NumNonSpace(c) == Cardinality({k \in 1..Len(Runes(c)) : ~IsSpace(Runes(c)[k])})

\* letters / non-whitespace characters >= 0.6
LetterShareOK(c) == NumNonSpace(c) > 0 /\ 10 * NumLetters(c) >= 6 * NumNonSpace(c)

C8_MonotoneAsStated ==
    (pc = "judged" /\ appended # <<>> /\ prevVerdict /\ ValidWord("main", appended))
        => verdict

\* C8 as amended: an accepted candidate stays accepted when a valid word is
\* appended of whose characters at least 60% are letters (any valid word,
\* for isMeaningful).
C8_Monotone ==
    (/\ pc = "judged" /\ appended # <<>> /\ prevVerdict
     /\ ValidWord("main", appended)
     /\ variant = "main" => LetterShareOK(appended))
        => verdict

\* "a11 abe" (letter ratio 4/6, accepted) with "abe" appended.
C8_Witness ==
    /\ pc = "judged" /\ variant = "main"
    /\ appended = <<97, 98, 101>>
    /\ cand = <<97, 49, 49, 32, 97, 98, 101, 32, 97, 98, 101>>
    /\ prevVerdict /\ verdict

\* C9: isValidMessage accepts exactly the candidates of at least 2 words
\* whose letter ratio is at least 0.6 and that have at least 2 words of at
\* least 3 characters with a letter and a vowel.
C9_ValidMessageIff ==
    (pc = "judged" /\ variant = "main") =>
        (verdict <=> (/\ Len(Fields(cand)) >= minWords
                      /\ LetterShareOK(cand)
                      /\ NumValid("main", cand) >= minWords))

(***************************************************************************)
(* SpecPipeline: analyzeTransaction applied to one payload.                *)
(***************************************************************************)
MaxTokens == 3

\* The keys of functionSignatures, as bytes.
SigPrefixes ==
    {<<169, 5, 156, 187>>, <<35, 184, 114, 221>>, <<9, 94, 167, 179>>,
     <<66, 132, 46, 14>>, <<184, 141, 79, 222>>, <<162, 44, 180, 101>>,
     <<99, 82, 33, 30>>, <<112, 160, 130, 49>>, <<6, 253, 222, 3>>,
     <<149, 216, 155, 65>>}

\* No prefix, and "abe ", which is no key.
OtherPrefixes == {<<>>, <<97, 98, 101, 32>>}

\* "abe", "xk", ' ', '!' and NUL
Tokens == {<<97, 98, 101>>, <<120, 107>>, <<32>>, <<33>>, <<0>>}

\* "hello world this is a test"
HelloWorld ==
    <<104, 101, 108, 108, 111, 32, 119, 111, 114, 108, 100, 32, 116, 104, 105,
      115, 32, 105, 115, 32, 97, 32, 116, 101, 115, 116>>

Payloads ==
    {p \o Concat(ts) : p \in SigPrefixes \cup OtherPrefixes, ts \in BSeq(Tokens, MaxTokens)}
    \cup {p \o HelloWorld : p \in SigPrefixes \cup OtherPrefixes}

InitPipeline ==
    /\ variant \in Variants
    /\ pc = "analyze"
    /\ data \in Payloads
    /\ once = <<>> /\ twice = <<>>
    /\ candidates = <<>> /\ accepted = <<>>
    /\ ScanIdle /\ ExtIdle /\ ClsIdle

AnalyzePayload ==
    /\ pc = "analyze"
    /\ candidates' = CandidatesOf(variant, data)
    /\ accepted' = AcceptedOf(variant, data)
    /\ pc' = "analyzed"
    /\ UNCHANGED <<variant, scanVars, decVars, extVars, clsVars>>

NextPipeline == AnalyzePayload

SpecPipeline == InitPipeline /\ [][NextPipeline]_vars

\* C2: a payload whose first 4 bytes, hex-encoded, are a key of the
\* Signature Table yields no candidate and no accepted message.
C2_SignatureFiltered ==
    (/\ pc = "analyzed"
     /\ Len(data) >= 4
     /\ EncodeToString(SubSeq(data, 1, 4)) \in DOMAIN functionSignatures)
        => (candidates = <<>> /\ accepted = <<>>)

(***************************************************************************)
(* Spec: the scan. main obtains the chain head, then calls processBlock    *)
(* for every block number of the range; processBlock fetches the block and *)
(* analyses its transactions one after the other.                          *)
(***************************************************************************)
MaxTxs == 2

\* tx.To() of a contract creation
Nil == "nil"

\* The transactions a block may hold: a transfer with the text "abe abe", a
\* contract creation with the same text, a call whose data starts with the
\* ERC20 transfer signature, and a contract creation with "xk 99".
TxKinds ==
    {[hash |-> "text", to |-> "0xA", data |-> <<97, 98, 101, 32, 97, 98, 101>>],
     [hash |-> "create", to |-> Nil, data |-> <<97, 98, 101, 32, 97, 98, 101>>],
     [hash |-> "call", to |-> "0xA",
      data |-> <<169, 5, 156, 187, 0, 0, 0, 1>>],
     [hash |-> "noise", to |-> Nil, data |-> <<120, 107, 32, 57, 57>>]}

\* The chain heads header.Number.Int64() is drawn from.
Heads == {10, 11}

startBlock == endBlock - scanDepth

\* The loop condition of main.
InRangeOfScan(n) == IF variant = "main" THEN n >= startBlock ELSE n <= endBlock

\* The loop increment of main.
Step(n) == IF variant = "main" THEN n - 1 ELSE n + 1

InitScan ==
    /\ variant \in Variants
    /\ endBlock \in Heads
    /\ blockNum = (IF variant = "main" THEN endBlock ELSE endBlock - scanDepth)
    /\ pc = "loop"
    /\ curTxs = <<>> /\ txIdx = 1 /\ blockOutputs = <<>> /\ emitted = <<>>
    /\ fetched = <<>> /\ logged = <<>>
    /\ DecIdle /\ ExtIdle /\ ClsIdle /\ PipeIdle

\* for blockNum ...; <condition>; ...
LoopTest ==
    /\ pc = "loop"
    /\ pc' = (IF InRangeOfScan(blockNum) THEN "fetch" ELSE "done")
    /\ UNCHANGED <<variant, scanVars, decVars, extVars, clsVars, pipeVars>>

\* client.BlockByNumber returns a block.
FetchOK(txs) ==
    /\ pc = "fetch"
    /\ fetched' = Append(fetched, blockNum)
    /\ curTxs' = txs
    /\ txIdx' = 1
    /\ blockOutputs' = <<>>
    /\ emitted' = <<>>
    /\ pc' = "txs"
    /\ UNCHANGED <<variant, endBlock, blockNum, logged, decVars, extVars, clsVars, pipeVars>>

\* A build that ends the process on a fetch error (log.Fatalf).
FetchErrorFatal ==
    /\ pc = "fetch"
    /\ fetched' = Append(fetched, blockNum)
    /\ logged' = Append(logged, blockNum)
    /\ curTxs' = <<>> /\ txIdx' = 1 /\ blockOutputs' = <<>> /\ emitted' = <<>>
    /\ pc' = "exit"
    /\ UNCHANGED <<variant, endBlock, blockNum, decVars, extVars, clsVars, pipeVars>>

\* client.BlockByNumber returns an error: log.Printf and return.
FetchError ==
    /\ pc = "fetch"
    /\ fetched' = Append(fetched, blockNum)
    /\ logged' = Append(logged, blockNum)
    /\ curTxs' = <<>> /\ txIdx' = 1 /\ blockOutputs' = <<>> /\ emitted' = <<>>
    /\ pc' = "sleep"
    /\ UNCHANGED <<variant, endBlock, blockNum, decVars, extVars, clsVars, pipeVars>>

\* main.go, the body of processBlock's loop for one transaction.
AnalyzeTx ==
    /\ pc = "txs" /\ variant = "main"
    /\ txIdx <= Len(curTxs)
    /\ LET validMessages == AcceptedOf("main", curTxs[txIdx].data)
       IN  blockOutputs' =
               IF Len(validMessages) > 0
               THEN Append(blockOutputs, [tx |-> txIdx, msgs |-> validMessages])
               ELSE blockOutputs
    /\ txIdx' = txIdx + 1
    /\ UNCHANGED <<variant, pc, endBlock, blockNum, curTxs, emitted, fetched, logged,
                   decVars, extVars, clsVars, pipeVars>>

\* The lines printed for one entry of blockOutputs, or by printResults.
MsgLines(ms) == [k \in 1..Len(ms) |-> [line |-> "msg", msg |-> ms[k]]]

RECURSIVE OutputLines(_)
OutputLines(outs) ==
    IF outs = <<>> THEN <<>>
    ELSE <<[line |-> "Tx", tx |-> Head(outs).tx]>> \o MsgLines(Head(outs).msgs)
         \o OutputLines(Tail(outs))

\* main.go, the end of processBlock: the header and the accumulated outputs.
PrintBlock ==
    /\ pc = "txs" /\ variant = "main"
    /\ txIdx > Len(curTxs)
    /\ emitted' =
           IF Len(blockOutputs) > 0
           THEN <<[line |-> "Block", num |-> blockNum]>> \o OutputLines(blockOutputs)
           ELSE emitted
    /\ pc' = "sleep"
    /\ UNCHANGED <<variant, endBlock, blockNum, curTxs, txIdx, blockOutputs, fetched,
                   logged, decVars, extVars, clsVars, pipeVars>>

\* part_000, analyzeTransaction and printResults for one transaction whose
\* To() is set or that has no meaningful message.
PrintResults ==
    /\ pc = "txs" /\ variant = "part"
    /\ txIdx <= Len(curTxs)
    /\ LET tx == curTxs[txIdx]
           shown == AcceptedOf("part", tx.data)
       IN  /\ (shown = <<>> \/ tx.to # Nil)
           /\ emitted' =
                  IF shown = <<>> THEN emitted
                  ELSE emitted
                       \o <<[line |-> "BlockTx", num |-> blockNum, tx |-> txIdx],
                            [line |-> "From", to |-> tx.to],
                            [line |-> "Possible messages:"]>>
                       \o MsgLines(shown)
    /\ txIdx' = txIdx + 1
    /\ UNCHANGED <<variant, pc, endBlock, blockNum, curTxs, blockOutputs, fetched, logged,
                   decVars, extVars, clsVars, pipeVars>>

\* part_000, printResults for a transaction with a meaningful message and
\* no destination: the header is printed, then tx.To().Hex() dereferences nil
\* and the process panics.
PrintResultsNilTo ==
    /\ pc = "txs" /\ variant = "part"
    /\ txIdx <= Len(curTxs)
    /\ LET tx == curTxs[txIdx]
       IN  /\ AcceptedOf("part", tx.data) # <<>>
           /\ tx.to = Nil
    /\ emitted' = Append(emitted, [line |-> "BlockTx", num |-> blockNum, tx |-> txIdx])
    /\ pc' = "panic"
    /\ UNCHANGED <<variant, endBlock, blockNum, curTxs, txIdx, blockOutputs, fetched,
                   logged, decVars, extVars, clsVars, pipeVars>>

\* part_000, the end of processBlock.
EndBlock ==
    /\ pc = "txs" /\ variant = "part"
    /\ txIdx > Len(curTxs)
    /\ pc' = "sleep"
    /\ UNCHANGED <<variant, scanVars, decVars, extVars, clsVars, pipeVars>>

\* time.Sleep and the loop increment.
NextBlock ==
    /\ pc = "sleep"
    /\ blockNum' = Step(blockNum)
    /\ pc' = "loop"
    /\ UNCHANGED <<variant, endBlock, curTxs, txIdx, blockOutputs, emitted, fetched,
                   logged, decVars, extVars, clsVars, pipeVars>>

Next ==
    \/ LoopTest
    \/ \E txs \in BSeq(TxKinds, MaxTxs) : FetchOK(txs)
    \/ FetchError
    \/ AnalyzeTx
    \/ PrintBlock
    \/ PrintResults
    \/ PrintResultsNilTo
    \/ EndBlock
    \/ NextBlock

Spec == InitScan /\ [][Next]_vars

Occurrences(q, x) == Cardinality({k \in 1..Len(q) : q[k] = x})

\* The block number after n in the direction of the scan.
Adjacent(n) == IF variant = "main" THEN n - 1 ELSE n + 1

\* The last block number of the range in the direction of the scan.
LastOfRange == IF variant = "main" THEN endBlock - scanDepth ELSE endBlock

\* C1: a failed fetch of block N is logged once, N is fetched once, the scan
\* goes on, and the next fetch is for the adjacent block number.
C1_FetchErrorSkips ==
    \A i \in 1..Len(fetched) :
        LET n == fetched[i]
        IN  Occurrences(logged, n) > 0 =>
                /\ Occurrences(logged, n) = 1
                /\ Occurrences(fetched, n) = 1
                /\ i < Len(fetched) => fetched[i + 1] = Adjacent(n)
                /\ i = Len(fetched) =>
                       /\ pc \in {"sleep", "loop", "fetch", "done"}
                       /\ pc = "sleep" => blockNum = n
                       /\ pc \in {"loop", "fetch"} => blockNum = Adjacent(n)
                       /\ pc = "done" => n = LastOfRange

\* The head block and the one after the next fail; each is followed by the
\* fetch of its neighbour.
C1_Witness ==
    /\ variant = "main"
    /\ fetched = <<endBlock, endBlock - 1, endBlock - 2>>
    /\ logged = <<endBlock, endBlock - 2>>
    /\ pc = "done"

\* The transactions of the current block with an accepted message.
WithMessage == {i \in 1..Len(curTxs) : AcceptedOf(variant, curTxs[i].data) # <<>>}

\* The block headers printed for the current block.
Headers == {k \in 1..Len(emitted) : emitted[k].line \in {"Block", "BlockTx"}}

\* The positions of emitted that name a transaction, and the transactions.
TxLines == {k \in 1..Len(emitted) : emitted[k].line \in {"Tx", "BlockTx"}}
Reported == {emitted[k].tx : k \in TxLines}

\* The current block was fetched and all its transactions are processed.
BlockProcessed == pc = "sleep" /\ Occurrences(logged, blockNum) = 0

\* C3: one block header if a transaction of the block has an accepted
\* message, none otherwise; the report lists these transactions in order.
C3_OneReportPerBlock ==
    BlockProcessed =>
        /\ Cardinality(Headers) = (IF WithMessage # {} THEN 1 ELSE 0)
        /\ Reported = WithMessage
        /\ Cardinality(TxLines) = Cardinality(WithMessage)
        /\ \A j, k \in TxLines : j < k => emitted[j].tx < emitted[k].tx

\* The block numbers of the range, in the order of the scan, up to k.
ScanOrder(k) ==
    [i \in 1..k |-> IF variant = "main" THEN endBlock - (i - 1)
                    ELSE endBlock - scanDepth + (i - 1)]

\* C4: the fetches are the block numbers of [H - scanDepth, H] in order, one
\* each, and when the program has ended all scanDepth + 1 were issued.
C4_WholeRangeFetched ==
    /\ Len(fetched) <= scanDepth + 1
    /\ fetched = ScanOrder(Len(fetched))
    /\ pc \in {"done", "panic", "exit"} => Len(fetched) = scanDepth + 1

\* C10: a contract creation with an accepted message is reported and the
\* scan goes on.
C10_CreationReported ==
    \A i \in WithMessage :
        (curTxs[i].to = Nil /\ i <= txIdx) =>
            /\ pc # "panic"
            /\ BlockProcessed => i \in Reported

=============================================================================
